---- MODULE Spec2Model ----
(***************************************************************************)
(* Model of the playback synchronisation engine of the Discord/Spotify bot *)
(* (class VoiceManager and its helpers in services/voice.ts, and the parts *)
(* of SpotifyService and of the command layer it depends on).              *)
(*                                                                         *)
(* Node.js runs the handlers on one thread: an action of this model is the *)
(* code between two suspension points (await / timer / process event).     *)
(* The Discord voice library, the Spotify Web API and the child processes  *)
(* are the environment; their answers are drawn nondeterministically.      *)
(***************************************************************************)
EXTENDS Integers, FiniteSets, Sequences, Bags, TLC

\* ---------------------------------------------------------------- bounds
MaxSessions == 2      \* VoiceSession objects (and their intervals) ever created
MaxProcs    == 2      \* subprocess generations ever spawned
MaxInFlight == 2      \* handlers (connectToChannel, syncSpotifyPlayback) suspended together
MaxStates   == 3      \* OAuth state tokens ever generated

\* the guilds the bot is a member of, and those whose members use it in the
\* specifications of a single guild
AllGuilds == {"g1", "g2"}
Guilds == {"g1"}
Users  == {"u1", "u2", "u3"}
Tracks == {"A", "B"}

NoTrack == "null"     \* the value null of currentTrackUrl / trackUrl
NoId    == 0          \* null reference (session, interval, process, missing map entry)

SessIds == 1..MaxSessions
ProcIds == 1..MaxProcs

VARIABLES
    userSessions,   \* SpotifyService.userSessions: users holding Spotify tokens
    sessions,       \* VoiceManager.sessions: guildId -> VoiceSession reference
    heap,           \* the VoiceSession objects
    conn,           \* status of the guild's VoiceConnection kept by @discordjs/voice
    timers,         \* timers[s]: the interval created by startSpotifyPolling for session s
    procs,          \* subprocess generations (ffmpeg + attached ytdlpProcess)
    ticks,          \* bag of the suspended syncSpotifyPlayback/playTrack invocations
    calls,          \* bag of the suspended connectToChannel invocations
    lastSnapshot,   \* history: lastSnapshot[s] is the track of the snapshot that the
                    \* latest tick of session s received, when that snapshot was
                    \* {track, isPlaying: true}; NoTrack otherwise
    lookup,         \* the query loop of playTrack and its searchYouTube call
    ladder,         \* a getYouTubeAudioUrl call: its closure and its subprocesses
    oauth           \* SpotifyService.pendingAuths and the suspended handleCallback calls

\* the state of the voice manager, and all the variables
managerVars == <<userSessions, sessions, heap, conn, timers, procs, ticks, calls, lastSnapshot>>
vars == <<managerVars, lookup, ladder, oauth>>

\* ------------------------------------------------------------ data shapes
\* interface VoiceSession; `connection` is the state of the VoiceConnection
\* object the session was created with ("open" until it is destroyed);
\* `resource` is the generation whose stdout the player holds as its
\* AudioResource (0 when the player holds none); pollingInterval is 0 (null)
\* or the session's own interval.
NoSession ==
    [used |-> FALSE, guildId |-> "-", controllingUserId |-> "-", connection |-> "-",
     player |-> "Idle", resource |-> NoId, pollingInterval |-> NoId,
     currentTrackUrl |-> NoTrack, currentProcess |-> NoId]

\* a VoiceSession object that nothing references any more
DeadSession == [NoSession EXCEPT !.used = TRUE]

\* an interval handle: "free" (not created yet), "armed" or "cleared"
NoTimer == [state |-> "free", guildId |-> "-"]

\* one generation: the ffmpeg ChildProcess and its ytdlpProcess; sess and
\* track note the session and the track it was spawned for
NoProc == [used |-> FALSE, sess |-> NoId, track |-> NoTrack,
           ffmpeg |-> "-", ytdlp |-> "-"]

\* a generation that nothing references and whose processes are gone
DeadProc == [NoProc EXCEPT !.used = TRUE]

\* a suspended invocation more / less in a bag of them
Suspend(bag, x) == bag (+) SetToBag({x})
Resume(bag, x) == bag (-) SetToBag({x})

\* number of suspended handlers
InFlight == BagCardinality(ticks) + BagCardinality(calls)

\* least unused index of a table, 0 when the bound is exhausted
FreeSess  == LET F == {i \in SessIds : ~heap[i].used} IN
             IF F = {} THEN NoId ELSE CHOOSE i \in F : \A j \in F : i <= j
FreeProc  == LET F == {i \in ProcIds : ~procs[i].used} IN
             IF F = {} THEN NoId ELSE CHOOSE i \in F : \A j \in F : i <= j

\* a generation with a process the program has neither signalled nor seen exit
Running(P) == P.used /\ (P.ffmpeg = "running" \/ P.ytdlp = "running")

\* ------------------------------------------------------ garbage collection
\* A VoiceSession object is reachable from the sessions map or from the
\* `session` variable of a suspended handler; a ChildProcess object from the
\* currentProcess field or the player's resource of a reachable session.
\* What the program can no longer observe is collected: an unreachable
\* session loses its fields; a generation none of whose processes runs keeps
\* only the track it was spawned for, and that only while it is referenced;
\* an unreferenced generation that still runs loses its track.
CollectHeap(h, ss, tk) ==
    LET live == {ss[g] : g \in AllGuilds} \cup {t.sess : t \in BagToSet(tk)} IN
    [s \in SessIds |-> IF h[s].used /\ s \notin live THEN DeadSession ELSE h[s]]

CollectProcs(pr, h) ==
    LET refd == {h[s].currentProcess : s \in SessIds} \cup {h[s].resource : s \in SessIds} IN
    [p \in ProcIds |->
        IF ~pr[p].used THEN pr[p]
        ELSE IF Running(pr[p])
             THEN IF p \in refd THEN pr[p] ELSE [pr[p] EXCEPT !.track = NoTrack]
             ELSE IF p \in refd THEN [DeadProc EXCEPT !.track = pr[p].track] ELSE DeadProc]

\* the new heap h and process table pr, after collection; sessions' and
\* ticks' are fixed by the action before
Collect(h, pr) ==
    /\ heap' = CollectHeap(h, sessions', ticks')
    /\ procs' = CollectProcs(pr, heap')

\* the history ls of the sessions that are still reachable
Forget(ls) == [s \in SessIds |-> IF heap'[s] = DeadSession THEN NoTrack ELSE ls[s]]

\* the `queries` of playTrack and the formatPriority of getYouTubeAudioUrl
NumQueries == 4
NumFormats == 5

\* The query loop of playTrack with the searchYouTube call it awaits.
\* loop: "idle", "awaiting", "found" (break with a videoUrl), "exhausted"
\* (videoUrl null after the last query), "threw" (the await threw).
\* query: index of the query of the current call.  promise / curlPromise:
\* the promises of searchYouTube and of searchYouTubeCurl ("none",
\* "pending", "url", "null", "rejected").  resolved: the flag of the
\* closure.  ytdlp / curl: the subprocess ("none", "running", "errored":
\* 'error' emitted, 'close' to come, "killed": SIGKILL delivered by the
\* timeout handler, 'close' to come, "closed").  ytUrl: the yt-dlp process
\* closed with code 0 and a URL.  ytTimer / curlTimer: the setTimeout of the
\* call ("none", "armed", "fired").  ytCalls / curlCalls: how often the
\* current query went to each provider.
NoLookup ==
    [loop |-> "idle", query |-> 0, promise |-> "none", resolved |-> FALSE,
     ytdlp |-> "none", ytUrl |-> FALSE, ytTimer |-> "none",
     curl |-> "none", curlPromise |-> "none", curlTimer |-> "none",
     ytCalls |-> 0, curlCalls |-> 0]

\* A getYouTubeAudioUrl call.  currentIndex: the variable of the closure.
\* promise: "none", "pending", "url", "null"; url: the position (1..NumFormats)
\* of the selector whose URL was delivered.  attempts: one record per spawned
\* extraction subprocess, in spawn order: fmt (index of its selector), proc
\* (as ytdlp above), timer (its setTimeout), late (it was spawned after the
\* promise had settled).
NoLadder == [currentIndex |-> 0, promise |-> "none", url |-> 0, attempts |-> << >>]

\* The OAuth login.  pendingAuths: state token -> Discord user ("-": no
\* entry).  issued: the tokens 1..issued have been generated (generateState
\* draws 22 random characters; two draws are taken to differ).  exchanges:
\* bag of the handleCallback calls suspended at authorizationCodeGrant.
\* created: history, how many times a callback with the token stored a
\* user session.
StateTokens == 1..MaxStates

NoOAuth ==
    [pendingAuths |-> [st \in StateTokens |-> "-"], issued |-> 0,
     exchanges |-> EmptyBag, created |-> [st \in StateTokens |-> 0]]

\* ------------------------------------------------------------------ Init
\* u1 and u2 have logged in to Spotify (tokens loaded from the token file),
\* u3 has not
InitManager ==
    /\ userSessions = {"u1", "u2"}
    /\ sessions = [g \in AllGuilds |-> NoId]
    /\ heap = [s \in SessIds |-> NoSession]
    /\ conn = [g \in AllGuilds |-> "none"]
    /\ timers = [s \in SessIds |-> NoTimer]
    /\ procs = [p \in ProcIds |-> NoProc]
    /\ ticks = EmptyBag
    /\ calls = EmptyBag
    /\ lastSnapshot = [s \in SessIds |-> NoTrack]

\* no query loop, no getYouTubeAudioUrl call and no login is under way
Init ==
    /\ InitManager
    /\ lookup = NoLookup
    /\ ladder = NoLadder
    /\ oauth = NoOAuth

\* ------------------------------------------- library and helper semantics
\* Status of a guild's voice connection: "none" (never joined, or destroyed),
\* "connecting" (signalling, connecting or disconnected: not Ready), "ready".
\* joinVoiceChannel: the library keeps one VoiceConnection per guild and
\* returns it again unless it was destroyed; otherwise it makes a new one.
JoinVoiceChannel(g) == IF conn[g] = "none" THEN "connecting" ELSE conn[g]

\* ChildProcess.kill(sig): delivers sig to a running process, no effect otherwise
Kill(st, sig) == IF st = "running" THEN sig ELSE st

\* KillGeneration that signals nothing
KillGeneration_None(P) == P

\* kill('SIGKILL') on the attached ytdlpProcess and on the ffmpeg process
KillGeneration(P) ==
    [P EXCEPT !.ytdlp = Kill(P.ytdlp, "SIGKILL"), !.ffmpeg = Kill(P.ffmpeg, "SIGKILL")]

\* session.currentProcess.kill(): default signal, ffmpeg process only
KillFfmpegOnly(P) == [P EXCEPT !.ffmpeg = Kill(P.ffmpeg, "SIGTERM")]

\* AudioPlayer.stop(): any state -> Idle, the resource is dropped
PlayerStop(S) == [S EXCEPT !.player = "Idle", !.resource = NoId]

\* PlayerPause that pauses the player in whatever state it is
PlayerPause_Always(S) == [S EXCEPT !.player = "Paused"]

\* AudioPlayer.pause(): Playing -> Paused, no effect in any other state
PlayerPause(S) == IF S.player = "Playing" THEN [S EXCEPT !.player = "Paused"] ELSE S

\* PlayerUnpause that leaves a paused player paused
PlayerUnpause_Never(S) == S

\* AudioPlayer.unpause(): Paused -> Playing, no effect in any other state
PlayerUnpause(S) == IF S.player = "Paused" THEN [S EXCEPT !.player = "Playing"] ELSE S

\* AudioPlayer.play(resource): the player takes the resource and buffers
PlayerPlay(S, p) == [S EXCEPT !.player = "Buffering", !.resource = p]

\* IsUserConnected that finds a stored authorization for everybody
IsUserConnected_Always(u) == TRUE

\* SpotifyService.isUserConnected
IsUserConnected(u) == u \in userSessions

\* VoiceManager.isUserControlling
IsUserControlling(g, u) ==
    sessions[g] # NoId /\ heap[sessions[g]].controllingUserId = u

\* VoiceManager.getCurrentTrack
GetCurrentTrack(g) ==
    IF sessions[g] = NoId THEN NoTrack ELSE heap[sessions[g]].currentTrackUrl

\* ------------------------------------------------------ connectToChannel
\* ControlledByOther with the check of the controlling user left out
ControlledByOther_Never(g, u) == FALSE

\* `existingSession && existingSession.controllingUserId !== member.id`
ControlledByOther(g, u) ==
    sessions[g] # NoId /\ heap[sessions[g]].controllingUserId # u

\* What connectToChannel does before its await: "conflict" and
\* "notAuthorized" are the two early returns with success: false, "join"
\* means it goes on to joinVoiceChannel and awaits entersState.
ConnectCheck(g, u) ==
    IF ControlledByOther(g, u) THEN "conflict"
    ELSE IF ~IsUserConnected(u) THEN "notAuthorized"
    ELSE "join"

\* Lines up to the await of entersState: controller check, authorization
\* check, joinVoiceChannel.
ConnectToChannel(g, u) ==
    IF ConnectCheck(g, u) # "join"
    THEN UNCHANGED vars
    ELSE /\ InFlight < MaxInFlight
         /\ conn' = [conn EXCEPT ![g] = JoinVoiceChannel(g)]
         /\ calls' = Suspend(calls, [guildId |-> g, user |-> u, dead |-> FALSE,
                                     existingSession |-> sessions[g]])
         /\ UNCHANGED <<oauth, lookup, ladder, userSessions, sessions, heap, timers, procs, ticks, lastSnapshot>>

\* SyncStart whose getCurrentlyPlaying goes to the Web API for every user
SyncStart_AlwaysFetch(s, u) == [pc |-> "fetch", sess |-> s, track |-> NoTrack]

\* Entry of syncSpotifyPlayback for session s, controlled by user u, up to
\* its await of getCurrentlyPlaying: the handler keeps the session object it
\* looked up; getCurrentlyPlaying goes to the Web API ("fetch") when it
\* finds the stored Spotify session of u, and returns null without a
\* request ("denied") when it finds none.
SyncStart(s, u) ==
    [pc |-> IF IsUserConnected(u) THEN "fetch" ELSE "denied", sess |-> s, track |-> NoTrack]

\* startSpotifyPolling: arms the interval and runs the initial sync up to
\* its first await.
StartSpotifyPolling(g, s, u) ==
    /\ timers' = [timers EXCEPT ![s] = [state |-> "armed", guildId |-> g]]
    /\ ticks' = Suspend(ticks, SyncStart(s, u))

\* entersState resolved: player creation, session registration, polling.
ConnectReady(c) ==
    LET g == c.guildId
        s == FreeSess
    IN
    /\ ~c.dead
    /\ conn[g] = "ready"
    /\ s # NoId
    /\ sessions' = [sessions EXCEPT ![g] = s]
    /\ StartSpotifyPolling(g, s, c.user)
    /\ Collect([heap EXCEPT ![s] =
                  [used |-> TRUE, guildId |-> g, controllingUserId |-> c.user,
                   connection |-> "open", player |-> "Idle", resource |-> NoId, pollingInterval |-> s,
                   currentTrackUrl |-> NoTrack, currentProcess |-> NoId]],
               procs)
    /\ calls' = Resume(calls, c)
    /\ lastSnapshot' = Forget(lastSnapshot)
    /\ UNCHANGED <<oauth, lookup, ladder, userSessions, conn>>

\* entersState rejected (30 s timeout, or the connection was destroyed):
\* the catch block returns a failure; the connection is left as it is.
ConnectFail(c) ==
    /\ c.dead \/ conn[c.guildId] # "ready"
    /\ calls' = Resume(calls, c)
    /\ UNCHANGED <<oauth, lookup, ladder, userSessions, sessions, heap, conn, timers, procs, ticks, lastSnapshot>>

\* ------------------------------------------------------------ disconnect
\* stopSpotifyPolling: clears the interval held by the registered session
StopSpotifyPolling(g) ==
    LET s == sessions[g] IN
    IF s # NoId /\ heap[s].pollingInterval # NoId
    THEN [timers EXCEPT ![heap[s].pollingInterval].state = "cleared"]
    ELSE timers

\* Destroyed that marks the sessions of every guild
Destroyed_Everywhere(h, g) ==
    [s \in SessIds |-> IF h[s].used THEN [h[s] EXCEPT !.connection = "destroyed"] ELSE h[s]]

\* the sessions of heap h, those created with the connection of guild g
\* holding a destroyed connection
Destroyed(h, g) ==
    [s \in SessIds |-> IF h[s].used /\ h[s].guildId = g
                       THEN [h[s] EXCEPT !.connection = "destroyed"] ELSE h[s]]

\* connection.destroy(): suspended connectToChannel calls that wait for this
\* connection to become Ready can only fail from now on
DestroyConnection(g) ==
    LET Doom(c) == IF c.guildId = g THEN [c EXCEPT !.dead = TRUE] ELSE c
        Count(d) == (IF d \in DOMAIN calls THEN calls[d] ELSE 0)
                    + (IF [d EXCEPT !.dead = FALSE] \in DOMAIN calls /\ d.dead /\ d.guildId = g
                       THEN calls[[d EXCEPT !.dead = FALSE]] ELSE 0)
    IN
    /\ conn' = [conn EXCEPT ![g] = "none"]
    /\ calls' = [d \in {Doom(c) : c \in DOMAIN calls} |-> Count(d)]

\* What VoiceManager.disconnect returns or does: "notConnected" (success:
\* false), "threw" (connection.destroy() throws on a connection that is
\* already destroyed; the statements after it are skipped), "success".
DisconnectResult(g) ==
    IF sessions[g] = NoId THEN "notConnected"
    ELSE IF heap[sessions[g]].connection = "destroyed" THEN "threw"
    ELSE "success"

\* disconnect that destroys the voice connection of a guild without session
Disconnect_Unchecked(g) ==
    /\ sessions[g] = NoId
    /\ conn[g] # "none"
    /\ DestroyConnection(g)
    /\ UNCHANGED <<oauth, lookup, ladder, userSessions, sessions, heap, timers, procs, ticks, lastSnapshot>>

\* VoiceManager.disconnect
Disconnect(g) ==
    LET s == sessions[g] IN
    IF s = NoId
    THEN UNCHANGED vars
    ELSE LET p == heap[s].currentProcess
             stopped == [heap EXCEPT ![s] = PlayerStop([heap[s] EXCEPT !.pollingInterval = NoId])]
             killed == IF p # NoId THEN [procs EXCEPT ![p] = KillGeneration(procs[p])] ELSE procs
         IN
         /\ timers' = StopSpotifyPolling(g)
         /\ UNCHANGED <<oauth, lookup, ladder, userSessions, ticks>>
         /\ IF DisconnectResult(g) = "threw"
            THEN /\ UNCHANGED <<sessions, conn, calls>>
                 /\ Collect(stopped, killed)
            ELSE /\ DestroyConnection(g)
                 /\ sessions' = [sessions EXCEPT ![g] = NoId]
                 /\ Collect(Destroyed(stopped, g), killed)
         /\ lastSnapshot' = Forget(lastSnapshot)

\* DisconnectCommandCheck without the comparison with controllingUserId
DisconnectCommandCheck_Anyone(g, u) ==
    IF sessions[g] = NoId THEN "notConnected" ELSE "disconnect"

\* What disconnectCommand.execute answers: without a session "notConnected",
\* to anyone but the controlling user "refused", else it calls disconnect
DisconnectCommandCheck(g, u) ==
    IF sessions[g] = NoId THEN "notConnected"
    ELSE IF heap[sessions[g]].controllingUserId # u THEN "refused"
    ELSE "disconnect"

\* disconnectCommand.execute after the deferred reply
DisconnectCommand(g, u) ==
    IF DisconnectCommandCheck(g, u) = "disconnect" THEN Disconnect(g) ELSE UNCHANGED vars

\* --------------------------------------------------- syncSpotifyPlayback
\* The interval callback of startSpotifyPolling fires (the interval of
\* session s was created for the guild of s).  setInterval fires every 5 s
\* whether or not the previous callback's promise has settled.
TimerFire(s) ==
    LET g == timers[s].guildId IN
    /\ timers[s].state = "armed"
    /\ IF sessions[g] = NoId
       THEN UNCHANGED ticks
       ELSE /\ InFlight < MaxInFlight
            /\ ticks' = Suspend(ticks, SyncStart(sessions[g],
                                                  heap[sessions[g]].controllingUserId))
    /\ UNCHANGED <<oauth, lookup, ladder, userSessions, sessions, heap, conn, timers, procs, calls, lastSnapshot>>

\* IsNewTrack that never sends a snapshot to playTrack
IsNewTrack_Never(S, tr) == FALSE

\* IsNewTrack without the comparison with currentTrackUrl
IsNewTrack_Always(S, tr) == tr # NoTrack

\* IsNewTrack without the test that the snapshot has a trackUrl
IsNewTrack_NullIsNew(S, tr) == tr # S.currentTrackUrl

\* the test that sends a playing snapshot to playTrack
IsNewTrack(S, tr) == tr # NoTrack /\ tr # S.currentTrackUrl

\* Branch `!currentlyPlaying`: nothing is playing on Spotify.
SyncNothing(t) ==
    LET s == t.sess
        S == heap[s]
        p == S.currentProcess
    IN
    /\ ticks' = Resume(ticks, t)
    /\ IF S.player # "Idle"
       THEN Collect([heap EXCEPT ![s] =
                       [PlayerStop(S) EXCEPT !.currentProcess = NoId,
                                             !.currentTrackUrl = NoTrack]],
                    IF p # NoId THEN [procs EXCEPT ![p] = KillFfmpegOnly(procs[p])]
                                ELSE procs)
       ELSE Collect(heap, procs)

\* Branch `!currentlyPlaying.isPlaying`: paused on Spotify.
SyncPaused(t) ==
    LET s == t.sess IN
    /\ ticks' = Resume(ticks, t)
    /\ Collect([heap EXCEPT ![s] = PlayerPause(heap[s])], procs)

\* Entry of playTrack up to the await of the first searchYouTube: looks the
\* session up again, kills the previous generation, stops the player.
PlayTrackStart(t, tr) ==
    LET g == heap[t.sess].guildId
        ps == sessions[g]
    IN
    IF ps = NoId
    THEN /\ ticks' = Resume(ticks, t)
         /\ Collect(heap, procs)
    ELSE LET P == heap[ps]
             p == P.currentProcess
         IN
         /\ ticks' = Suspend(Resume(ticks, t), [pc |-> "search", sess |-> ps, track |-> tr])
         /\ Collect([heap EXCEPT ![ps] = PlayerStop([P EXCEPT !.currentProcess = NoId])],
                    IF p # NoId THEN [procs EXCEPT ![p] = KillGeneration(procs[p])] ELSE procs)

\* Branch isPlaying: a new track goes to playTrack, the same track resumes
\* a paused player.
SyncPlaying(t, tr) ==
    LET s == t.sess IN
    IF IsNewTrack(heap[s], tr)
    THEN PlayTrackStart(t, tr)
    ELSE /\ ticks' = Resume(ticks, t)
         /\ Collect([heap EXCEPT ![s] = PlayerUnpause(heap[s])], procs)

\* getCurrentlyPlaying settled (it never rejects: its errors become null):
\* the rest of syncSpotifyPlayback up to its end or to the first await of
\* playTrack.
Fetched(t, kind, tr) ==
    /\ t.pc = "fetch"
    /\ UNCHANGED <<oauth, lookup, ladder, userSessions, sessions, conn, timers, calls>>
    /\ CASE kind = "nothing" -> tr = NoTrack /\ SyncNothing(t)
         [] kind = "paused"  -> SyncPaused(t)
         [] kind = "playing" -> SyncPlaying(t, tr)

FetchReturn(t, kind, tr) ==
    /\ Fetched(t, kind, tr)
    /\ lastSnapshot' = Forget(lastSnapshot)

\* the same step, with the snapshot noted in the history
FetchNoted(t, kind, tr) ==
    /\ Fetched(t, kind, tr)
    /\ lastSnapshot' = Forget([lastSnapshot EXCEPT
                                 ![t.sess] = IF kind = "playing" THEN tr ELSE NoTrack])

\* getCurrentlyPlaying found no stored Spotify session of the controlling
\* user and returned null: the tick takes the branch `!currentlyPlaying`
FetchDenied(t) ==
    /\ t.pc = "denied"
    /\ UNCHANGED <<oauth, lookup, ladder, userSessions, sessions, conn, timers, calls>>
    /\ SyncNothing(t)
    /\ lastSnapshot' = Forget(lastSnapshot)

\* What the Web API answers to getMyCurrentPlayingTrack: the request fails
\* ("error": network, 401, 429, ...), the body has no track item ("empty":
\* 204, an episode, an ad), or it has a track, playing or paused.
ApiAnswers == {"error", "empty", "paused", "playing"}

\* GetCurrentlyPlaying that reports a failed request as a paused snapshot
GetCurrentlyPlaying_ErrorAsPaused(answer) ==
    IF answer = "empty" THEN "nothing" ELSE IF answer = "error" THEN "paused" ELSE answer

\* SpotifyService.getCurrentlyPlaying after the request: the catch block and
\* the test of the body both return null, a track becomes a snapshot with
\* its is_playing flag
GetCurrentlyPlaying(answer) ==
    IF answer \in {"error", "empty"} THEN "nothing" ELSE answer

\* the request of a tick is answered (a failed request and an empty body
\* name no track)
FetchAnswered(t, answer, tr) ==
    /\ answer \in {"error", "empty"} => tr = NoTrack
    /\ FetchReturn(t, GetCurrentlyPlaying(answer), tr)

\* ------------------------------------------------------------- playTrack
\* createYtdlpStream: spawns yt-dlp and ffmpeg for session ps; the stdout of
\* the ffmpeg ChildProcess is null when ffmpeg could not be spawned
CreateYtdlpStream(p, ps, tr, out) ==
    [procs EXCEPT ![p] = [used |-> TRUE, sess |-> ps, track |-> tr,
                          ffmpeg |-> IF out = "noStdout" THEN "failed" ELSE "running",
                          ytdlp |-> "running"]]

\* SearchMiss that also clears the interval of the session
SearchMiss_StopsPolling(t) ==
    /\ t.pc = "search"
    /\ ticks' = Resume(ticks, t)
    /\ timers' = [timers EXCEPT ![t.sess].state = "cleared"]
    /\ UNCHANGED <<oauth, lookup, ladder, userSessions, sessions, conn, calls>>
    /\ Collect(heap, procs)
    /\ lastSnapshot' = Forget(lastSnapshot)

\* The loop over `queries` ended with videoUrl null (searchYouTube resolved
\* null for every query; the loop touches no session state): playTrack returns
SearchMiss(t) ==
    /\ t.pc = "search"
    /\ ticks' = Resume(ticks, t)
    /\ UNCHANGED <<oauth, lookup, ladder, userSessions, sessions, conn, timers, calls>>
    /\ Collect(heap, procs)
    /\ lastSnapshot' = Forget(lastSnapshot)

\* AfterPipeline that hands the resource to the player and leaves
\* currentTrackUrl as it was
AfterPipeline_KeepsUrl(S, p, tr, out) ==
    LET withProc == [S EXCEPT !.currentProcess = p] IN
    IF out = "ok" THEN PlayerPlay(withProc, p) ELSE withProc

\* AfterPipeline with currentTrackUrl written whatever the pipeline did
AfterPipeline_WritesAlways(S, p, tr, out) ==
    LET withProc == [S EXCEPT !.currentProcess = p, !.currentTrackUrl = tr] IN
    IF out = "ok" THEN PlayerPlay(withProc, p) ELSE withProc

\* The session after the pipeline was spawned as generation p for track tr:
\* currentProcess is set at once; the resource goes to the player and
\* currentTrackUrl is written only when nothing failed on the way.
AfterPipeline(S, p, tr, out) ==
    LET withProc == [S EXCEPT !.currentProcess = p] IN
    IF out = "ok" THEN [PlayerPlay(withProc, p) EXCEPT !.currentTrackUrl = tr] ELSE withProc

\* The loop over `queries` ended with a video URL: the rest of playTrack.
\* out is what the pipeline does: "ok", "spawnThrow" (spawn throws),
\* "noStdout" (ffmpeg did not start: stdout is null), "playThrow"
\* (createAudioResource or player.play throws).
SearchHit(t, out) ==
    LET ps == t.sess
        p == FreeProc
    IN
    /\ t.pc = "search"
    /\ ticks' = Resume(ticks, t)
    /\ UNCHANGED <<oauth, lookup, ladder, userSessions, sessions, conn, timers, calls>>
    /\ IF out = "spawnThrow"
       THEN Collect(heap, procs)
       ELSE /\ p # NoId
            /\ Collect([heap EXCEPT ![ps] = AfterPipeline(heap[ps], p, t.track, out)],
                       CreateYtdlpStream(p, ps, t.track, out))
    /\ lastSnapshot' = Forget(lastSnapshot)

\* ------------------------------------------------------------ environment
\* the voice connection reaches Ready
ConnReady(g) ==
    /\ conn[g] = "connecting"
    /\ conn' = [conn EXCEPT ![g] = "ready"]
    /\ UNCHANGED <<oauth, lookup, ladder, userSessions, sessions, heap, timers, procs, ticks, calls, lastSnapshot>>

\* the voice connection drops (bot moved or kicked from the channel, network)
ConnDrop(g) ==
    /\ conn[g] = "ready"
    /\ conn' = [conn EXCEPT ![g] = "connecting"]
    /\ UNCHANGED <<oauth, lookup, ladder, userSessions, sessions, heap, timers, procs, ticks, calls, lastSnapshot>>

\* the library destroys the connection (the bot left the guild)
ConnDestroyed(g) ==
    /\ conn[g] # "none"
    /\ DestroyConnection(g)
    /\ heap' = Destroyed(heap, g)
    /\ UNCHANGED <<oauth, lookup, ladder, userSessions, sessions, timers, procs, ticks, lastSnapshot>>

\* the resource of a buffering player becomes readable
PlayerReadable(s) ==
    /\ heap[s].used /\ heap[s].player = "Buffering"
    /\ heap' = [heap EXCEPT ![s].player = "Playing"]
    /\ UNCHANGED <<oauth, lookup, ladder, userSessions, sessions, conn, timers, procs, ticks, calls, lastSnapshot>>

\* a pipeline ends by itself (end of the track or a crash): the processes of
\* the generation that still run exit, the player that reads its stdout
\* falls back to Idle
Exit(st) == IF st = "running" THEN "exited" ELSE st

ProcExit(p) ==
    /\ Running(procs[p])
    /\ UNCHANGED <<oauth, lookup, ladder, userSessions, sessions, conn, timers, ticks, calls>>
    /\ Collect([s \in SessIds |->
                  IF heap[s].used /\ heap[s].resource = p THEN PlayerStop(heap[s]) ELSE heap[s]],
               [procs EXCEPT ![p].ffmpeg = Exit(procs[p].ffmpeg),
                             ![p].ytdlp = Exit(procs[p].ytdlp)])
    /\ lastSnapshot' = Forget(lastSnapshot)

\* ------------------------------------------------------------------ Next
SnapshotKinds == {"nothing", "paused", "playing"}
PipelineOutcomes == {"ok", "spawnThrow", "noStdout", "playThrow"}

Next ==
    \/ \E g \in Guilds, u \in Users : ConnectToChannel(g, u)
    \/ \E c \in BagToSet(calls) : ConnectReady(c)
    \/ \E c \in BagToSet(calls) : ConnectFail(c)
    \/ \E g \in Guilds : Disconnect(g)
    \/ \E g \in Guilds, u \in Users : DisconnectCommand(g, u)
    \/ \E s \in SessIds : TimerFire(s)
    \/ \E t \in BagToSet(ticks), kind \in SnapshotKinds, tr \in Tracks \cup {NoTrack} :
           FetchReturn(t, kind, tr)
    \/ \E t \in BagToSet(ticks) : SearchMiss(t)
    \/ \E t \in BagToSet(ticks), out \in PipelineOutcomes : SearchHit(t, out)
    \/ \E g \in Guilds : ConnReady(g)
    \/ \E g \in Guilds : ConnDrop(g)
    \/ \E g \in Guilds : ConnDestroyed(g)
    \/ \E s \in SessIds : PlayerReadable(s)
    \/ \E p \in ProcIds : ProcExit(p)

Spec == Init /\ [][Next]_vars

\* The sync loop with its history: the snapshots that the ticks receive are
\* noted in lastSnapshot, and the guild is connected by one call at a time
\* (no call while a session is registered or another call is suspended).
NextHistory ==
    \/ \E g \in Guilds, u \in Users :
           sessions[g] = NoId /\ calls = EmptyBag /\ ConnectToChannel(g, u)
    \/ \E c \in BagToSet(calls) : ConnectReady(c)
    \/ \E g \in Guilds : Disconnect(g)
    \/ \E s \in SessIds : TimerFire(s)
    \/ \E t \in BagToSet(ticks), kind \in SnapshotKinds, tr \in Tracks \cup {NoTrack} :
           FetchNoted(t, kind, tr)
    \/ \E t \in BagToSet(ticks) : SearchMiss(t)
    \/ \E t \in BagToSet(ticks), out \in PipelineOutcomes : SearchHit(t, out)
    \/ \E g \in Guilds : ConnReady(g)
    \/ \E s \in SessIds : PlayerReadable(s)
    \/ \E p \in ProcIds : ProcExit(p)

SpecHistory == Init /\ [][NextHistory]_vars

\* ------------------------------------------------------------- scheduling
\* What the event loop guarantees: an armed interval fires again, the promise
\* of getCurrentlyPlaying settles, the loop over the queries ends
\* (searchYouTube has a timeout), a suspended connectToChannel settles
\* (entersState has a 30 s timeout).
TimerStep == \E s \in SessIds : TimerFire(s)

FetchStep ==
    \E t \in BagToSet(ticks), kind \in SnapshotKinds, tr \in Tracks \cup {NoTrack} :
        FetchReturn(t, kind, tr)

SearchStep ==
    \E t \in BagToSet(ticks) : SearchMiss(t) \/ \E out \in PipelineOutcomes : SearchHit(t, out)

ConnectStep == \E c \in BagToSet(calls) : ConnectReady(c) \/ ConnectFail(c)

\* The bot left to itself: the guild is connected by one call at a time and
\* nobody runs the disconnect command.
NextUnattended ==
    \/ \E g \in Guilds, u \in Users :
           sessions[g] = NoId /\ calls = EmptyBag /\ ConnectToChannel(g, u)
    \/ ConnectStep
    \/ TimerStep
    \/ FetchStep
    \/ SearchStep
    \/ \E g \in Guilds : ConnReady(g)
    \/ \E g \in Guilds : ConnDrop(g)
    \/ \E g \in Guilds : ConnDestroyed(g)
    \/ \E s \in SessIds : PlayerReadable(s)
    \/ \E p \in ProcIds : ProcExit(p)

SpecUnattended ==
    /\ Init /\ [][NextUnattended]_vars
    /\ WF_vars(TimerStep) /\ WF_vars(FetchStep) /\ WF_vars(SearchStep) /\ WF_vars(ConnectStep)

\* A steady feed: from the start every getCurrentlyPlaying returns
\* {MirrorTrack, isPlaying: true} and every search and pipeline start
\* succeeds; nobody disconnects, and the voice connection may drop and
\* recover but is never destroyed.
MirrorTrack == "A"

MirrorFetch == \E t \in BagToSet(ticks) : FetchReturn(t, "playing", MirrorTrack)

MirrorSearch == \E t \in BagToSet(ticks) : SearchHit(t, "ok")

NextMirror ==
    \/ \E g \in Guilds, u \in Users :
           sessions[g] = NoId /\ calls = EmptyBag /\ ConnectToChannel(g, u)
    \/ ConnectStep
    \/ TimerStep
    \/ MirrorFetch
    \/ MirrorSearch
    \/ \E g \in Guilds : ConnReady(g)
    \/ \E g \in Guilds : ConnDrop(g)
    \/ \E s \in SessIds : PlayerReadable(s)
    \/ \E p \in ProcIds : ProcExit(p)

SpecMirror ==
    /\ Init /\ [][NextMirror]_vars
    /\ WF_vars(TimerStep) /\ WF_vars(MirrorFetch) /\ WF_vars(MirrorSearch) /\ WF_vars(ConnectStep)

\* -------------------------------------------------------------- all guilds
\* The bot serving all its guilds at once: the same user connects it in each
\* guild, by one call at a time per guild; the handlers of the guilds
\* interleave freely.
CallsOf(g) == {c \in BagToSet(calls) : c.guildId = g}

TicksOf(g) == {t \in BagToSet(ticks) : heap[t.sess].guildId = g}

NextGuilds ==
    \/ \E g \in AllGuilds :
           sessions[g] = NoId /\ CallsOf(g) = {} /\ ConnectToChannel(g, "u1")
    \/ ConnectStep
    \/ \E g \in AllGuilds : Disconnect(g)
    \/ TimerStep
    \/ \E t \in BagToSet(ticks), kind \in SnapshotKinds, tr \in {MirrorTrack, NoTrack} :
           FetchReturn(t, kind, tr)
    \/ SearchStep
    \/ \E g \in AllGuilds : ConnReady(g)
    \/ \E s \in SessIds : PlayerReadable(s)
    \/ \E p \in ProcIds : ProcExit(p)

SpecGuilds == Init /\ [][NextGuilds]_vars

\* -------------------------------------------------------- Spotify accounts
\* SpotifyService.disconnectUser, called by the logout commands for a user
\* with a stored Spotify session: the session is deleted; the voice manager
\* is not told
DisconnectUser(u) ==
    /\ IsUserConnected(u)
    /\ userSessions' = userSessions \ {u}
    /\ UNCHANGED <<oauth, lookup, ladder, sessions, heap, conn, timers, procs, ticks, calls, lastSnapshot>>

\* refreshTokenIfNeeded inside the getCurrentlyPlaying of tick t: the token
\* of the controlling user is about to expire and refreshAccessToken fails;
\* the catch block deletes the stored session, and getCurrentlyPlaying goes
\* on to its request with the session object it holds
RefreshFail(t) ==
    LET u == heap[t.sess].controllingUserId IN
    /\ t.pc = "fetch"
    /\ IsUserConnected(u)
    /\ userSessions' = userSessions \ {u}
    /\ UNCHANGED <<oauth, lookup, ladder, sessions, heap, conn, timers, procs, ticks, calls, lastSnapshot>>

\* The bot while its users log out and their tokens expire: the guild is
\* connected by one call at a time.
NextAccounts ==
    \/ \E g \in Guilds, u \in Users :
           sessions[g] = NoId /\ calls = EmptyBag /\ ConnectToChannel(g, u)
    \/ ConnectStep
    \/ \E g \in Guilds : Disconnect(g)
    \/ \E u \in Users : DisconnectUser(u)
    \/ \E t \in BagToSet(ticks) : RefreshFail(t)
    \/ TimerStep
    \/ \E t \in BagToSet(ticks), answer \in ApiAnswers, tr \in Tracks \cup {NoTrack} :
           FetchAnswered(t, answer, tr)
    \/ \E t \in BagToSet(ticks) : FetchDenied(t)
    \/ SearchStep
    \/ \E g \in Guilds : ConnReady(g)
    \/ \E s \in SessIds : PlayerReadable(s)
    \/ \E p \in ProcIds : ProcExit(p)

SpecAccounts == Init /\ [][NextAccounts]_vars

\* ------------------------------------------------------------ OAuth login
\* generateState: the next token, 0 when the bound is exhausted
GenerateState == IF oauth.issued < MaxStates THEN oauth.issued + 1 ELSE NoId

\* SpotifyService.getAuthUrl(u): a new state token is stored for u
GetAuthUrl(u) ==
    LET st == GenerateState IN
    /\ st # NoId
    /\ oauth' = [oauth EXCEPT !.pendingAuths[st] = u, !.issued = st]
    /\ UNCHANGED <<managerVars, lookup, ladder>>

\* What handleCallback does with a state token before its await: "null"
\* (no entry in pendingAuths: it returns null), "exchange" (it goes on to
\* authorizationCodeGrant)
HandleCallbackCheck(st) == IF oauth.pendingAuths[st] = "-" THEN "null" ELSE "exchange"

\* HandleCallback that leaves the entry of the token in pendingAuths
HandleCallback_KeepsState(st) ==
    IF HandleCallbackCheck(st) = "null"
    THEN UNCHANGED vars
    ELSE /\ oauth' = [oauth EXCEPT !.exchanges =
                                     Suspend(@, [state |-> st, user |-> oauth.pendingAuths[st]])]
         /\ UNCHANGED <<managerVars, lookup, ladder>>

\* GET /callback with a code and the state token st: handleCallback up to
\* its await of authorizationCodeGrant; the entry is deleted before the
\* exchange starts
HandleCallback(st) ==
    IF HandleCallbackCheck(st) = "null"
    THEN UNCHANGED vars
    ELSE /\ oauth' = [oauth EXCEPT !.pendingAuths[st] = "-",
                                   !.exchanges =
                                     Suspend(@, [state |-> st, user |-> oauth.pendingAuths[st]])]
         /\ UNCHANGED <<managerVars, lookup, ladder>>

\* authorizationCodeGrant resolved: the user session is stored and
\* handleCallback returns the user
ExchangeOk(x) ==
    /\ userSessions' = userSessions \cup {x.user}
    /\ oauth' = [oauth EXCEPT !.exchanges = Resume(@, x), !.created[x.state] = @ + 1]
    /\ UNCHANGED <<sessions, heap, conn, timers, procs, ticks, calls, lastSnapshot, lookup, ladder>>

\* authorizationCodeGrant rejected (bad or replayed code, network): the
\* catch block returns null
ExchangeFail(x) ==
    /\ oauth' = [oauth EXCEPT !.exchanges = Resume(@, x)]
    /\ UNCHANGED <<managerVars, lookup, ladder>>

\* Users log in and out: any callback may arrive at any time, with any
\* token, issued or not.
NextOAuth ==
    \/ \E u \in Users : GetAuthUrl(u)
    \/ \E st \in StateTokens : HandleCallback(st)
    \/ \E x \in BagToSet(oauth.exchanges) : ExchangeOk(x)
    \/ \E x \in BagToSet(oauth.exchanges) : ExchangeFail(x)
    \/ \E u \in Users : DisconnectUser(u)

SpecOAuth == Init /\ [][NextOAuth]_vars

\* ----------------------------------------------------------- searchYouTube
\* What spawn() does inside the executor of a provider's promise: "started"
\* (a ChildProcess with its pipes), or "threw" (spawn throws, or the child has
\* no stdout because the descriptors ran out and `proc.stdout.on` throws):
\* the executor throws and the promise is rejected.
SpawnOutcomes == {"started", "threw"}

\* resolve(v) of searchYouTube: only the first settlement counts
Settle(L, v) == IF L.promise = "pending" THEN [L EXCEPT !.promise = v] ELSE L

\* resolve(v) of searchYouTubeCurl, passed on by `.then(resolve)`
SettleCurl(L, v) ==
    IF L.curlPromise = "pending" THEN Settle([L EXCEPT !.curlPromise = v], v) ELSE L

\* searchYouTubeCurl(query) up to the end of its executor
SearchYouTubeCurl(L, out) ==
    IF out = "threw"
    THEN [L EXCEPT !.curlCalls = @ + 1, !.curlPromise = "rejected"]
    ELSE [L EXCEPT !.curlCalls = @ + 1, !.curlPromise = "pending",
                   !.curl = "running", !.curlTimer = "armed"]

\* Fallback without the test of the flag
Fallback_Unguarded(L, out) == SearchYouTubeCurl([L EXCEPT !.resolved = TRUE], out)

\* `if (!resolved) { resolved = true; searchYouTubeCurl(query).then(resolve) }`
Fallback(L, out) ==
    IF L.resolved THEN L ELSE SearchYouTubeCurl([L EXCEPT !.resolved = TRUE], out)

\* searchYouTube(query q) up to the end of its executor; the closure of the
\* call before (its settled promise, its timers) has no effect any more
SearchYouTube(q, out) ==
    LET call == [NoLookup EXCEPT !.loop = "awaiting", !.query = q, !.ytCalls = 1] IN
    IF out = "threw"
    THEN [call EXCEPT !.promise = "rejected"]
    ELSE [call EXCEPT !.promise = "pending", !.ytdlp = "running", !.ytTimer = "armed"]

\* playTrack reaches the loop over `queries` and awaits the first search
LoopStart(out) ==
    /\ lookup.loop = "idle"
    /\ lookup' = SearchYouTube(1, out)
    /\ UNCHANGED <<managerVars, ladder, oauth>>

\* LoopResume that gives up at the first query without a URL
LoopResume_GivesUpEarly(out) ==
    /\ lookup.loop = "awaiting"
    /\ lookup.promise \in {"url", "null", "rejected"}
    /\ lookup' = CASE lookup.promise = "url" -> [lookup EXCEPT !.loop = "found"]
                   [] lookup.promise = "rejected" -> [lookup EXCEPT !.loop = "threw"]
                   [] OTHER -> [lookup EXCEPT !.loop = "exhausted"]
    /\ UNCHANGED <<managerVars, ladder, oauth>>

\* the await of searchYouTube returns or throws: break, next query, or the
\* end of the loop
LoopResume(out) ==
    /\ lookup.loop = "awaiting"
    /\ lookup.promise \in {"url", "null", "rejected"}
    /\ lookup' = CASE lookup.promise = "url" -> [lookup EXCEPT !.loop = "found"]
                   [] lookup.promise = "rejected" -> [lookup EXCEPT !.loop = "threw"]
                   [] OTHER -> IF lookup.query < NumQueries
                               THEN SearchYouTube(lookup.query + 1, out)
                               ELSE [lookup EXCEPT !.loop = "exhausted"]
    /\ UNCHANGED <<managerVars, ladder, oauth>>

\* proc.on('error') of the yt-dlp search
YtError(out) ==
    /\ lookup.ytdlp = "running"
    /\ lookup' = Fallback([lookup EXCEPT !.ytdlp = "errored"], out)
    /\ UNCHANGED <<managerVars, ladder, oauth>>

\* proc.on('close') of the yt-dlp search; ok: code 0 and a URL on stdout
YtClose(ok, out) ==
    /\ lookup.ytdlp \in {"running", "errored", "killed"}
    /\ ok => lookup.ytdlp = "running"
    /\ lookup' =
         LET L == [lookup EXCEPT !.ytdlp = "closed", !.ytUrl = ok] IN
         IF L.resolved THEN L
         ELSE IF ok THEN Settle([L EXCEPT !.resolved = TRUE], "url")
         ELSE Fallback(L, out)
    /\ UNCHANGED <<managerVars, ladder, oauth>>

\* the 10 s setTimeout of searchYouTube (it is never cleared); kill() sets
\* proc.killed only when the signal was delivered
YtTimeout(out) ==
    /\ lookup.ytTimer = "armed"
    /\ lookup' =
         LET L == [lookup EXCEPT !.ytTimer = "fired"] IN
         IF L.ytdlp = "killed" THEN L
         ELSE Fallback([L EXCEPT !.ytdlp = IF @ = "running" THEN "killed" ELSE @], out)
    /\ UNCHANGED <<managerVars, ladder, oauth>>

\* proc.on('error') of curl
CurlError ==
    /\ lookup.curl = "running"
    /\ lookup' = SettleCurl([lookup EXCEPT !.curl = "errored"], "null")
    /\ UNCHANGED <<managerVars, ladder, oauth>>

\* proc.on('close') of curl; found: code 0 and a video id in the page
CurlClose(found) ==
    /\ lookup.curl \in {"running", "errored", "killed"}
    /\ found => lookup.curl = "running"
    /\ lookup' = SettleCurl([lookup EXCEPT !.curl = "closed"],
                            IF found THEN "url" ELSE "null")
    /\ UNCHANGED <<managerVars, ladder, oauth>>

\* the 20 s setTimeout of searchYouTubeCurl (never cleared)
CurlTimeout ==
    /\ lookup.curlTimer = "armed"
    /\ lookup' =
         LET L == [lookup EXCEPT !.curlTimer = "fired"] IN
         IF L.curl = "killed" THEN L
         ELSE SettleCurl([L EXCEPT !.curl = IF @ = "running" THEN "killed" ELSE @], "null")
    /\ UNCHANGED <<managerVars, ladder, oauth>>

NextSearch ==
    \/ \E out \in SpawnOutcomes : LoopStart(out)
    \/ \E out \in SpawnOutcomes : LoopResume(out)
    \/ \E out \in SpawnOutcomes : YtError(out)
    \/ \E ok \in BOOLEAN, out \in SpawnOutcomes : YtClose(ok, out)
    \/ \E out \in SpawnOutcomes : YtTimeout(out)
    \/ CurlError
    \/ \E found \in BOOLEAN : CurlClose(found)
    \/ CurlTimeout

SpecSearch == Init /\ [][NextSearch]_vars

\* ------------------------------------------------------ getYouTubeAudioUrl
\* tryFormat(): past the last selector it resolves null, else it spawns the
\* extraction subprocess of formatPriority[currentIndex] and arms its timer
TryFormat(D) ==
    IF D.currentIndex >= NumFormats
    THEN IF D.promise = "pending" THEN [D EXCEPT !.promise = "null"] ELSE D
    ELSE [D EXCEPT !.attempts =
            Append(@, [fmt |-> D.currentIndex, proc |-> "running", timer |-> "armed",
                       late |-> D.promise # "pending"])]

\* `currentIndex++; tryFormat();`
NextFormat(D) == TryFormat([D EXCEPT !.currentIndex = @ + 1])

\* getYouTubeAudioUrl(videoUrl) up to the end of its executor
LadderStart ==
    /\ ladder.promise = "none"
    /\ ladder' = TryFormat([ladder EXCEPT !.promise = "pending"])
    /\ UNCHANGED <<managerVars, lookup, oauth>>

\* proc.on('error') of attempt i
LadderError(i) ==
    /\ ladder.attempts[i].proc = "running"
    /\ ladder' = NextFormat([ladder EXCEPT !.attempts[i].proc = "errored"])
    /\ UNCHANGED <<managerVars, lookup, oauth>>

\* proc.on('close') of attempt i; ok: code 0 and a URL on stdout
LadderClose(i, ok) ==
    /\ ladder.attempts[i].proc \in {"running", "errored", "killed"}
    /\ ok => ladder.attempts[i].proc = "running"
    /\ ladder' =
         LET D == [ladder EXCEPT !.attempts[i].proc = "closed"] IN
         IF ok
         THEN IF D.promise = "pending"
              THEN [D EXCEPT !.promise = "url", !.url = D.attempts[i].fmt + 1]
              ELSE D
         ELSE NextFormat(D)
    /\ UNCHANGED <<managerVars, lookup, oauth>>

\* the 20 s setTimeout of attempt i (never cleared); proc.killed is set only
\* by a kill() that delivered its signal
LadderTimeout(i) ==
    /\ ladder.attempts[i].timer = "armed"
    /\ ladder' =
         LET D == [ladder EXCEPT !.attempts[i].timer = "fired"] IN
         IF D.attempts[i].proc = "killed" THEN D
         ELSE NextFormat([D EXCEPT !.attempts[i].proc =
                                       IF @ = "running" THEN "killed" ELSE @])
    /\ UNCHANGED <<managerVars, lookup, oauth>>

NextLadder ==
    \/ LadderStart
    \/ \E i \in DOMAIN ladder.attempts : LadderError(i)
    \/ \E i \in DOMAIN ladder.attempts, ok \in BOOLEAN : LadderClose(i, ok)
    \/ \E i \in DOMAIN ladder.attempts : LadderTimeout(i)

SpecLadder == Init /\ [][NextLadder]_vars

\* ================================================================ claims

\* C1: per session at most one subprocess generation is alive at any time:
\* no two generations spawned for the same session have a process that was
\* neither signalled nor seen to exit (so when playTrack spawns a pipeline,
\* every process of the previous generation has been sent a signal).
C1_OneGenerationAlive ==
    \A p, q \in ProcIds :
        (Running(procs[p]) /\ Running(procs[q]) /\ procs[p].sess = procs[q].sess) => p = q

\* C2: within one session ticks are serialized: never are two invocations of
\* syncSpotifyPlayback that work on the same session suspended together.
C2_TicksSerialized ==
    \A t \in BagToSet(ticks) :
        /\ ticks[t] = 1
        /\ \A t2 \in BagToSet(ticks) : t2.sess = t.sess => t2 = t

\* C3 (as claimed, its first half): at the end of a tick that processed a
\* snapshot {track tr, isPlaying: true}, currentTrackUrl equals tr if and only
\* if resolution and pipeline start succeeded in that tick.
C3_EqualsSnapshotIffResolved ==
    [][\A t \in BagToSet(ticks) :
         /\ \A tr \in Tracks :
               (Fetched(t, "playing", tr) /\ ticks' = Resume(ticks, t)
                   /\ heap'[t.sess] # DeadSession)
               => heap'[t.sess].currentTrackUrl # tr
         /\ (SearchMiss(t) /\ heap'[t.sess] # DeadSession)
               => heap'[t.sess].currentTrackUrl # t.track
         /\ \A out \in PipelineOutcomes :
               (SearchHit(t, out) /\ heap'[t.sess] # DeadSession)
               => (heap'[t.sess].currentTrackUrl = t.track <=> out = "ok")
      ]_vars

\* C3 (amended): a tick that processes a snapshot with isPlaying = true
\* writes currentTrackUrl only in the step of playTrack in which resolution
\* and pipeline start succeeded, and there it writes the snapshot's track to
\* the session playTrack works on; every other step of such a tick (same
\* track, no URL, no search result, spawn / stdout / play failure) leaves the
\* currentTrackUrl of every session as it was.  As a property of every step:
\* the currentTrackUrl of a session changes only to the track of a playTrack
\* that succeeds in this step or to null in the nothing-playing branch, and
\* a playTrack that succeeds leaves its track in currentTrackUrl.
C3_TrackUrlWrittenOnSuccess ==
    [][/\ \A s \in SessIds :
            (heap'[s] # DeadSession /\ heap'[s].currentTrackUrl # heap[s].currentTrackUrl)
            => \E t \in BagToSet(ticks) :
                  /\ t.sess = s
                  /\ \/ /\ t.pc = "search"
                        /\ heap'[s].currentTrackUrl = t.track
                        /\ SearchHit(t, "ok")
                     \/ /\ t.pc = "fetch"
                        /\ heap'[s].currentTrackUrl = NoTrack
                        /\ Fetched(t, "nothing", NoTrack)
       /\ \A t \in BagToSet(ticks) :
            (t.pc = "search" /\ heap'[t.sess] # DeadSession /\ SearchHit(t, "ok"))
            => heap'[t.sess].currentTrackUrl = t.track
      ]_vars

\* C3 witness: a registered session right after a successful playTrack: the
\* player buffers the pipeline spawned for the track in currentTrackUrl.
C3_Witness ==
    \E g \in Guilds :
        /\ sessions[g] # NoId
        /\ LET S == heap[sessions[g]] IN
           /\ S.currentTrackUrl \in Tracks
           /\ S.currentProcess # NoId
           /\ S.resource = S.currentProcess
           /\ procs[S.currentProcess].track = S.currentTrackUrl
           /\ S.player = "Buffering"

\* C4 (as claimed): when a tick receives the snapshot {track tr, isPlaying:
\* true} that the previous tick of the session received too, and no other
\* tick is in flight, it does not invoke the resolver again (the tick ends
\* without entering the search of playTrack).
C4_ResolvedOncePerSnapshot ==
    [][\A t \in BagToSet(ticks), tr \in Tracks :
         (t.pc = "fetch" /\ BagCardinality(ticks) = 1 /\ lastSnapshot[t.sess] = tr
             /\ Fetched(t, "playing", tr))
         => ticks' = Resume(ticks, t)
      ]_vars

\* C4 (amended): idempotence from the first successful start on: a tick
\* that receives {track tr, isPlaying: true} while currentTrackUrl is tr ends
\* in that step without a search, spawns and signals no subprocess, and
\* leaves currentTrackUrl and currentProcess as they were.
C4_NoResolveOnceStarted ==
    [][\A t \in BagToSet(ticks), tr \in Tracks :
         (t.pc = "fetch" /\ heap[t.sess].currentTrackUrl = tr /\ Fetched(t, "playing", tr))
         => /\ ticks' = Resume(ticks, t)
            /\ \A p \in ProcIds :
                 /\ procs'[p].used = procs[p].used
                 /\ Running(procs[p]) => /\ procs'[p].ffmpeg = procs[p].ffmpeg
                                         /\ procs'[p].ytdlp = procs[p].ytdlp
            /\ heap'[t.sess] # DeadSession
                 => /\ heap'[t.sess].currentTrackUrl = tr
                    /\ heap'[t.sess].currentProcess = heap[t.sess].currentProcess
      ]_vars

\* C4 witness: the pipeline of track A runs for a registered session whose
\* previous tick received {A, isPlaying: true}, and the next tick is in flight.
C4_Witness ==
    \E t \in BagToSet(ticks) :
        /\ t.pc = "fetch" /\ BagCardinality(ticks) = 1
        /\ \E g \in Guilds : sessions[g] = t.sess
        /\ LET S == heap[t.sess] IN
           /\ S.currentTrackUrl = "A" /\ lastSnapshot[t.sess] = "A"
           /\ S.currentProcess # NoId /\ Running(procs[S.currentProcess])
           /\ S.player = "Playing"

\* C5: when disconnect has removed the session of a guild, no subprocess
\* spawned for that session is left unsignalled and no timer created for the
\* guild is still armed.
C5_DisconnectLeavesNothing ==
    [][\A g \in Guilds :
         (sessions[g] # NoId /\ sessions'[g] = NoId)
         => /\ \A p \in ProcIds : procs[p].sess = sessions[g] => ~Running(procs'[p])
            /\ \A s \in SessIds : timers'[s].guildId = g => timers'[s].state # "armed"
      ]_vars

\* C6: a tick whose session is no longer registered is harmless: when it
\* goes on after an await it spawns no subprocess and changes nothing of the
\* session (player, currentTrackUrl, currentProcess).
C6_InFlightTickHarmless ==
    [][\A t \in BagToSet(ticks) :
         (\A g \in Guilds : sessions[g] # t.sess)
         => /\ \A out \in PipelineOutcomes :
                 SearchHit(t, out) => \A p \in ProcIds : procs'[p].used = procs[p].used
            /\ \A kind \in SnapshotKinds, tr \in Tracks \cup {NoTrack} :
                 (Fetched(t, kind, tr) /\ heap'[t.sess] # DeadSession)
                 => heap'[t.sess] = heap[t.sess]
      ]_vars

\* C7: connectToChannel(g, u) for a guild whose registered session is
\* controlled by another user returns the conflict failure and changes
\* nothing: no step of it joins a voice channel, suspends, creates a timer
\* or touches the session.
C7_ConflictRejected ==
    [][\A g \in Guilds, u \in Users :
         (sessions[g] # NoId /\ heap[sessions[g]].controllingUserId # u)
         => /\ ConnectCheck(g, u) = "conflict"
            /\ ConnectToChannel(g, u) => UNCHANGED vars
      ]_vars

\* C7 witness: a user with a Spotify login other than the controlling user
\* can call connectToChannel for a guild whose session polls and plays.
C7_Witness ==
    \E g \in Guilds, u \in Users :
        /\ IsUserConnected(u)
        /\ sessions[g] # NoId
        /\ LET S == heap[sessions[g]] IN
           /\ S.controllingUserId # u
           /\ S.pollingInterval # NoId /\ timers[S.pollingInterval].state = "armed"
           /\ S.currentProcess # NoId /\ S.player = "Playing"
           /\ conn[g] = "ready"

\* C8: a connectToChannel call ends with success, making its caller the
\* controlling user, only when no session of another user is registered
\* for the guild: of two racing calls by different users one is rejected.
C8_OneControllerPerGuild ==
    [][\A c \in BagToSet(calls) :
         ConnectReady(c)
         => \/ sessions[c.guildId] = NoId
            \/ heap[sessions[c.guildId]].controllingUserId = c.user
      ]_vars

\* C9: connectToChannel invoked by the user who controls the registered
\* session (the session it found is still the registered one when the call
\* goes on after its await) is a no-op: the registered session object, its
\* fields and the timers are unchanged.
C9_ReconnectIsNoOp ==
    [][\A c \in BagToSet(calls) :
         (c.existingSession # NoId /\ sessions[c.guildId] = c.existingSession
             /\ ConnectReady(c))
         => /\ sessions' = sessions
            /\ timers' = timers
            /\ heap'[c.existingSession] = heap[c.existingSession]
      ]_vars

\* C10: whenever no connectToChannel call is in flight for a guild, a
\* session is registered for the guild if and only if a voice connection of
\* the guild exists.
C10_SessionIffConnection ==
    \A g \in Guilds :
        (\A c \in BagToSet(calls) : c.guildId # g)
        => (sessions[g] # NoId <=> conn[g] # "none")

\* C11: a registered session whose voice connection is lost for good (the
\* connection is destroyed) is eventually torn down without a disconnect
\* command: it leaves the registry and no interval stays armed for its guild.
C11_TornDownAfterConnectionLoss ==
    \A g \in Guilds :
        (sessions[g] # NoId /\ heap[sessions[g]].connection = "destroyed")
            ~> (sessions[g] = NoId
                /\ \A s \in SessIds : ~(timers[s].state = "armed" /\ timers[s].guildId = g))

\* C12: whenever no tick is in flight, the currentProcess of a registered
\* session, if set, is the generation spawned for the track in
\* currentTrackUrl, and a currentTrackUrl that names a track comes with the
\* generation spawned for it (the two fields are never stale on their own).
C12_ProcessIsForTrackUrl ==
    ticks = EmptyBag =>
        \A g \in Guilds :
            sessions[g] # NoId =>
                LET S == heap[sessions[g]] IN
                /\ S.currentProcess # NoId => procs[S.currentProcess].track = S.currentTrackUrl
                /\ S.currentTrackUrl # NoTrack => S.currentProcess # NoId

\* C13: a tick of the registered session whose fetch returns null leaves,
\* when the player was not Idle, the player stopped, currentProcess null, no
\* process of the previous generation running and currentTrackUrl null; when
\* the player was Idle it leaves the session as it was; and in both cases
\* currentTrackUrl is null afterwards.
C13_NothingPlayingClearsSession ==
    [][\A t \in BagToSet(ticks) :
          (/\ t.pc = "fetch"
           /\ sessions[heap[t.sess].guildId] = t.sess
           /\ Fetched(t, "nothing", NoTrack))
          => LET S == heap[t.sess]
                 S2 == heap'[t.sess]
             IN
             /\ S.player = "Idle" => S2 = S
             /\ S.player # "Idle" =>
                    /\ S2.player = "Idle"
                    /\ S2.currentProcess = NoId
                    /\ S.currentProcess # NoId => ~Running(procs'[S.currentProcess])
             /\ S2.currentTrackUrl = NoTrack]_vars

\* C14: a tick whose snapshot has isPlaying false, whatever track it names,
\* starts no search and changes the state of no subprocess; on a registered
\* session it turns a Playing player to Paused and changes nothing else, and
\* with the player in any other state it leaves the session as it was.
C14_PausedSnapshotOnlyPauses ==
    [][\A t \in BagToSet(ticks) :
          (/\ t.pc = "fetch"
           /\ BagCardinality(ticks') < BagCardinality(ticks)
           /\ \E tr \in Tracks \cup {NoTrack} : Fetched(t, "paused", tr))
          => LET S == heap[t.sess] IN
             /\ ticks' = Resume(ticks, t)
             /\ \A p \in ProcIds : /\ procs'[p].used = procs[p].used
                                   /\ procs'[p].ffmpeg = procs[p].ffmpeg
                                   /\ procs'[p].ytdlp = procs[p].ytdlp
             /\ sessions[S.guildId] = t.sess =>
                    heap'[t.sess] = IF S.player = "Playing"
                                    THEN [S EXCEPT !.player = "Paused"] ELSE S]_vars

\* a registered session paused by such a tick: the player is Paused, the
\* pipeline of its track still runs
C14_Witness ==
    \E g \in Guilds :
        /\ sessions[g] # NoId
        /\ LET S == heap[sessions[g]] IN
           /\ S.player = "Paused"
           /\ S.currentTrackUrl \in Tracks
           /\ S.currentProcess # NoId
           /\ S.resource = S.currentProcess
           /\ Running(procs[S.currentProcess])

\* C15: a tick of a registered session whose snapshot is playing and names
\* the track in currentTrackUrl starts no search and spawns or kills
\* nothing; with the player Paused it only turns the player to Playing, and
\* with the player Playing it changes nothing but the end of the tick.
C15_SameTrackResumesByUnpause ==
    [][\A t \in BagToSet(ticks) :
          (/\ t.pc = "fetch"
           /\ BagCardinality(ticks') < BagCardinality(ticks)
           /\ sessions[heap[t.sess].guildId] = t.sess
           /\ heap[t.sess].currentTrackUrl \in Tracks
           /\ heap[t.sess].player \in {"Paused", "Playing"}
           /\ Fetched(t, "playing", heap[t.sess].currentTrackUrl))
          => LET S == heap[t.sess] IN
             /\ ticks' = Resume(ticks, t)
             /\ procs' = procs
             /\ heap' = [heap EXCEPT ![t.sess] =
                           IF S.player = "Paused" THEN [S EXCEPT !.player = "Playing"] ELSE S]
             /\ UNCHANGED <<sessions, timers, conn, calls>>]_vars

\* a paused registered session about to receive its snapshot: the pipeline
\* of its track is alive and a tick waits for getCurrentlyPlaying
C15_Witness ==
    \E t \in BagToSet(ticks) :
        /\ t.pc = "fetch"
        /\ sessions[heap[t.sess].guildId] = t.sess
        /\ heap[t.sess].player = "Paused"
        /\ heap[t.sess].currentTrackUrl \in Tracks
        /\ heap[t.sess].currentProcess # NoId
        /\ Running(procs[heap[t.sess].currentProcess])

\* C16: track switch on a registered session whose currentTrackUrl is a
\* track A.  The tick that receives a playing snapshot of another track B
\* first leaves no process of the generation in currentProcess running and
\* starts the search for B, spawning nothing yet and keeping currentTrackUrl;
\* the step that ends the tick after a successful resolution spawns a new
\* generation for B, hands it to the player (Buffering on that generation)
\* and writes B to currentTrackUrl.
C16_TrackSwitchInOrder ==
    [][\A t \in BagToSet(ticks) :
          LET s == t.sess
              S == heap[s]
          IN
          /\ (/\ t.pc = "fetch"
              /\ sessions[S.guildId] = s
              /\ S.currentTrackUrl \in Tracks)
             => \A B \in Tracks \ {S.currentTrackUrl} :
                    Fetched(t, "playing", B) =>
                        /\ S.currentProcess # NoId => ~Running(procs'[S.currentProcess])
                        /\ ticks' = Suspend(Resume(ticks, t), [pc |-> "search", sess |-> s, track |-> B])
                        /\ \A p \in ProcIds : procs'[p].used = procs[p].used
                        /\ heap'[s].currentTrackUrl = S.currentTrackUrl
                        /\ heap'[s].currentProcess = NoId
          /\ (/\ t.pc = "search"
              /\ sessions[S.guildId] = s
              /\ SearchHit(t, "ok"))
             => LET p == heap'[s].currentProcess IN
                /\ p # NoId /\ ~procs[p].used
                /\ procs'[p] = [used |-> TRUE, sess |-> s, track |-> t.track,
                                ffmpeg |-> "running", ytdlp |-> "running"]
                /\ heap'[s].player = "Buffering"
                /\ heap'[s].resource = p
                /\ heap'[s].currentTrackUrl = t.track
                /\ ticks' = Resume(ticks, t)]_vars

\* in the middle of a switch: the search for another track than the one in
\* currentTrackUrl is under way, the previous generation is gone, the player
\* is stopped
C16_Witness ==
    \E t \in BagToSet(ticks) :
        /\ t.pc = "search"
        /\ sessions[heap[t.sess].guildId] = t.sess
        /\ heap[t.sess].currentTrackUrl \in Tracks \ {t.track}
        /\ heap[t.sess].currentProcess = NoId
        /\ heap[t.sess].player = "Idle"
        /\ \E p \in ProcIds : procs[p] = DeadProc

C18_FreshResolutionAfterExit ==
    [][\A t \in BagToSet(ticks) :
          LET s == t.sess
              S == heap[s]
          IN
          (/\ t.pc = "fetch"
           /\ sessions[S.guildId] = s
           /\ S.player = "Idle"
           /\ S.currentTrackUrl \in Tracks
           /\ S.currentProcess # NoId
           /\ ~Running(procs[S.currentProcess])
           /\ procs[S.currentProcess].track = S.currentTrackUrl
           /\ Fetched(t, "playing", S.currentTrackUrl))
          => \E t2 \in BagToSet(ticks') :
                 t2.pc = "search" /\ t2.sess = s /\ t2.track = S.currentTrackUrl]_vars

\* C19: retry by polling.  When the previous snapshot of a registered
\* session named a track as playing and currentTrackUrl is still another
\* value (the resolution of that track has not succeeded), a tick whose
\* snapshot again names that track as playing starts the search for it; and
\* a search that finds nothing leaves currentTrackUrl as it was, so that the
\* same holds on the tick after.
C19_ExhaustedChainRetried ==
    [][\A t \in BagToSet(ticks) :
          LET s == t.sess
              S == heap[s]
          IN
          /\ (/\ t.pc = "fetch"
              /\ sessions[S.guildId] = s
              /\ lastSnapshot[s] \in Tracks
              /\ lastSnapshot[s] # S.currentTrackUrl
              /\ Fetched(t, "playing", lastSnapshot[s]))
             => ticks' = Suspend(Resume(ticks, t),
                                 [pc |-> "search", sess |-> s, track |-> lastSnapshot[s]])
          /\ (/\ t.pc = "search"
              /\ sessions[S.guildId] = s
              /\ SearchMiss(t))
             => /\ heap'[s].currentTrackUrl = S.currentTrackUrl
                /\ lastSnapshot'[s] = lastSnapshot[s]]_vars

\* after an exhausted chain: the last snapshot named a track, nothing was
\* spawned for it and no search is under way, and the next tick waits for
\* its snapshot
C19_Witness ==
    \E t \in BagToSet(ticks) :
        /\ t.pc = "fetch"
        /\ BagCardinality(ticks) = 1
        /\ sessions[heap[t.sess].guildId] = t.sess
        /\ lastSnapshot[t.sess] \in Tracks
        /\ heap[t.sess].currentTrackUrl # lastSnapshot[t.sess]
        /\ heap[t.sess].currentProcess = NoId
        /\ heap[t.sess].player = "Idle"

\* C20: under a steady feed of {MirrorTrack, playing} with successful
\* resolution and fair ticking, a registered session ends up, and stays, with
\* currentTrackUrl = MirrorTrack and the player buffering or playing the
\* stream of a running generation spawned for MirrorTrack.
C20_MirroringConverges ==
    \A g \in Guilds :
        <>[](sessions[g] # NoId =>
                LET S == heap[sessions[g]] IN
                /\ S.currentTrackUrl = MirrorTrack
                /\ S.player \in {"Buffering", "Playing"}
                /\ S.resource # NoId
                /\ procs[S.resource].track = MirrorTrack
                /\ Running(procs[S.resource]))

\* C21: connectToChannel by a user without a stored Spotify authorization
\* never goes on to join: its check answers one of the two failures, and
\* every call that gets suspended on entersState (the only way to a joined
\* connection, a registered session and an armed interval) was made by a
\* user with a stored authorization; nothing stays pending for the others.
C21_UnauthorizedConnectHasNoEffect ==
    [][/\ \A g \in Guilds, u \in Users \ userSessions :
              /\ ConnectCheck(g, u) \in {"conflict", "notAuthorized"}
              /\ ConnectToChannel(g, u) => UNCHANGED vars
       /\ \A c \in BagToSet(calls') :
              (~c.dead /\ (c \in DOMAIN calls => calls'[c] > calls[c]))
              => c.user \in userSessions]_vars

\* a user without authorization asks while the guild has a voice connection
\* but no session: the answer is the authorization failure
C21_Witness ==
    \E g \in Guilds, u \in Users \ userSessions :
        /\ ConnectCheck(g, u) = "notAuthorized"
        /\ conn[g] = "ready"
        /\ \E s \in SessIds : heap[s] = DeadSession

\* C22: disconnect on a guild without registered session answers
\* "notConnected" and is a step that changes nothing: no session, interval,
\* subprocess, connection or suspended handler.
C22_DisconnectWithoutSessionIsNoOp ==
    [][\A g \in Guilds :
          sessions[g] = NoId =>
              /\ DisconnectResult(g) = "notConnected"
              /\ Disconnect(g) => UNCHANGED vars]_vars

\* a guild without session where a disconnect would find things to touch: a
\* voice connection and a running subprocess
C22_Witness ==
    \E g \in Guilds :
        /\ sessions[g] = NoId
        /\ conn[g] # "none"
        /\ \E p \in ProcIds : Running(procs[p])

\* C23: disconnect on a guild with a registered session always ends with the
\* session removed from the registry, also when one of its steps throws.
C23_DisconnectAlwaysRemovesSession ==
    [][\A g \in Guilds :
          (sessions[g] # NoId /\ Disconnect(g)) => sessions'[g] = NoId]_vars

\* C24: the disconnect command of a user who is not the controllingUserId of
\* the registered session is answered "refused" and is a step that changes
\* nothing (registry, interval, subprocesses, player, connection).
C24_OnlyControllerDisconnects ==
    [][\A g \in Guilds, u \in Users :
          (sessions[g] # NoId /\ heap[sessions[g]].controllingUserId # u) =>
              /\ DisconnectCommandCheck(g, u) = "refused"
              /\ DisconnectCommand(g, u) => UNCHANGED vars]_vars

\* another user than the controlling one asks while the session plays
C24_Witness ==
    \E g \in Guilds, u \in Users :
        /\ DisconnectCommandCheck(g, u) = "refused"
        /\ LET S == heap[sessions[g]] IN
           /\ S.player = "Playing"
           /\ S.currentProcess # NoId
           /\ Running(procs[S.currentProcess])
           /\ timers[S.pollingInterval].state = "armed"

\* C25: a generation is only ever terminated by SIGKILL to both of its
\* processes: no process is left signalled with SIGTERM, and no generation
\* has its ffmpeg signalled while its yt-dlp still runs.
C25_TerminationKillsBoth ==
    \A p \in ProcIds :
        /\ procs[p].ffmpeg # "SIGTERM"
        /\ procs[p].ytdlp # "SIGTERM"
        /\ ~(procs[p].ffmpeg = "SIGKILL" /\ procs[p].ytdlp = "running")
        /\ ~(procs[p].ytdlp = "SIGKILL" /\ procs[p].ffmpeg = "running")

C27_TeardownIsAtomic ==
    \A g \in Guilds :
        sessions[g] # NoId =>
            /\ heap[sessions[g]].pollingInterval # NoId
            /\ timers[heap[sessions[g]].pollingInterval].state = "armed"

\* C28: resolution order.  Each query goes once to yt-dlp, and to curl at
\* most once and only after its yt-dlp attempt ended without a URL (error,
\* unsuccessful close or timeout); the queries are issued in list order, the
\* next one only after the call before resolved null with no subprocess of
\* it left running; after the first URL, the end of the list or an exception
\* no query is issued.
C28_ResolutionOrder ==
    [][/\ lookup'.ytCalls <= 1
       /\ lookup'.curlCalls <= 1
       /\ lookup'.curlCalls = 1 =>
              /\ lookup'.ytdlp \in {"errored", "killed", "closed"}
              /\ ~lookup'.ytUrl
              /\ lookup'.ytCalls = 1
       /\ lookup'.query # lookup.query =>
              /\ lookup'.query = lookup.query + 1
              /\ lookup.loop = "idle" \/ (lookup.loop = "awaiting" /\ lookup.promise = "null")
              /\ lookup.ytdlp # "running" /\ lookup.curl # "running"
       /\ lookup.loop \in {"found", "exhausted", "threw"} =>
              /\ lookup'.loop = lookup.loop
              /\ lookup'.query = lookup.query
              /\ lookup'.ytCalls = lookup.ytCalls
              /\ lookup'.curlCalls = lookup.curlCalls
       /\ lookup'.loop = "found" => lookup.promise = "url"
       /\ lookup'.loop = "exhausted" =>
              lookup.query = NumQueries /\ lookup.promise = "null"]_vars

\* the loop ended at the third query, whose URL came from the curl fallback
\* after the timeout of its yt-dlp search
C28_Witness ==
    /\ lookup.loop = "found"
    /\ lookup.query = 3
    /\ lookup.curlCalls = 1
    /\ lookup.ytTimer = "fired"
    /\ lookup.curlPromise = "url"

\* C29: the promise of a provider call is never rejected, and once all the
\* events of the call have happened (no subprocess is left to close, no
\* timer is armed) the promise of searchYouTube is settled.
C29_ProviderSettlesNeverRejects ==
    /\ lookup.promise # "rejected"
    /\ lookup.curlPromise # "rejected"
    /\ (/\ lookup.loop = "awaiting"
        /\ lookup.ytdlp \notin {"running", "errored", "killed"}
        /\ lookup.curl \notin {"running", "errored", "killed"}
        /\ lookup.ytTimer # "armed" /\ lookup.curlTimer # "armed")
       => lookup.promise \in {"url", "null"}

\* C30: format ladder.  The selectors are attempted in priority order, each
\* once and none skipped; at most one extraction subprocess runs at a time;
\* no subprocess is spawned after the promise has settled; and null is
\* delivered only when every selector was attempted and has failed.
C30_FormatLadderInOrder ==
    /\ \A i \in DOMAIN ladder.attempts :
           /\ ladder.attempts[i].fmt = i - 1
           /\ ~ladder.attempts[i].late
    /\ Cardinality({i \in DOMAIN ladder.attempts : ladder.attempts[i].proc = "running"}) <= 1
    /\ ladder.promise = "null" =>
           /\ Len(ladder.attempts) = NumFormats
           /\ \A i \in DOMAIN ladder.attempts : ladder.attempts[i].proc # "running"

\* C31: an operation on one guild (connectToChannel, disconnect, a tick of
\* syncSpotifyPlayback, playTrack) leaves what the bot holds for every other
\* guild as it was: the registered session with its controllingUserId,
\* currentTrackUrl, currentProcess and player, the process behind
\* currentProcess, the voice connection and the interval.
C31_GuildView(g) ==
    LET s == sessions[g] IN
    IF s = NoId THEN <<NoId, conn[g], NoSession, NoTimer, NoProc>>
    ELSE <<s, conn[g], heap[s], timers[s],
           IF heap[s].currentProcess = NoId THEN NoProc ELSE procs[heap[s].currentProcess]>>

C31_OperationOn(g) ==
    \/ \E u \in Users : ConnectToChannel(g, u)
    \/ \E c \in CallsOf(g) : ConnectReady(c) \/ ConnectFail(c)
    \/ Disconnect(g)
    \/ \E s \in SessIds : timers[s].guildId = g /\ TimerFire(s)
    \/ \E t \in TicksOf(g) :
           \/ \E kind \in SnapshotKinds, tr \in Tracks \cup {NoTrack} : FetchReturn(t, kind, tr)
           \/ SearchMiss(t)
           \/ \E out \in PipelineOutcomes : SearchHit(t, out)

C31_GuildsAreIsolated ==
    [][\A g \in AllGuilds :
         C31_OperationOn(g) =>
             \A h \in AllGuilds \ {g} : C31_GuildView(h)' = C31_GuildView(h)]_vars

\* both guilds hold a session that has played a track, and a handler of
\* each guild is suspended
C31_Witness ==
    /\ \A g \in AllGuilds :
           /\ sessions[g] # NoId
           /\ heap[sessions[g]].currentProcess # NoId
           /\ heap[sessions[g]].player # "Idle"
           /\ TicksOf(g) # {}

\* C32: the step that registers a session (connectToChannel after
\* entersState) starts exactly one tick of syncSpotifyPlayback for it and
\* arms its interval, and nothing takes the interval away from a session
\* that stays registered: after every step each registered session holds
\* its pollingInterval, and that interval is armed, so that its ticks keep
\* firing.
C32_PollingWhileRegistered ==
    [][/\ \A c \in BagToSet(calls) :
             ConnectReady(c) =>
                 LET s == sessions'[c.guildId] IN
                 /\ s # NoId /\ s # sessions[c.guildId]
                 /\ ticks' = Suspend(ticks, SyncStart(s, c.user))
                 /\ timers[s].state = "free"
                 /\ \A r \in SessIds : timers'[r] # timers[r] <=> r = s
       /\ \A g \in Guilds :
             sessions'[g] # NoId =>
                 LET S == heap'[sessions'[g]] IN
                 /\ S.pollingInterval # NoId
                 /\ timers'[S.pollingInterval].state = "armed"]_vars

C35_PlayingWithoutUrlOnlyResumes ==
    [][\A t \in BagToSet(ticks) :
          (/\ t.pc = "fetch"
           /\ BagCardinality(ticks') <= BagCardinality(ticks)
           /\ Fetched(t, "playing", NoTrack))
          => LET S == heap[t.sess] IN
             /\ ticks' = Resume(ticks, t)
             /\ \A p \in ProcIds : /\ procs'[p].used = procs[p].used
                                   /\ procs'[p].ffmpeg = procs[p].ffmpeg
                                   /\ procs'[p].ytdlp = procs[p].ytdlp
             /\ sessions[S.guildId] = t.sess =>
                    /\ heap'[t.sess].currentTrackUrl = S.currentTrackUrl
                    /\ heap'[t.sess].currentProcess = S.currentProcess
                    /\ heap'[t.sess] = IF S.player = "Paused"
                                       THEN [S EXCEPT !.player = "Playing"] ELSE S]_vars

\* a registered session with a loaded track, paused, whose latest snapshot
\* was not a playing one, while a tick waits for its snapshot
C35_Witness ==
    \E t \in BagToSet(ticks) :
        /\ t.pc = "fetch"
        /\ sessions[heap[t.sess].guildId] = t.sess
        /\ lastSnapshot[t.sess] = NoTrack
        /\ heap[t.sess].player = "Paused"
        /\ heap[t.sess].currentTrackUrl \in Tracks
        /\ heap[t.sess].resource = heap[t.sess].currentProcess
        /\ heap[t.sess].currentProcess # NoId

C37_StateTokenIsOneShot ==
    [][/\ \A st \in StateTokens :
             /\ oauth'.created[st] <= 1
             /\ oauth'.created[st] +
                   BagCardinality([x \in {y \in DOMAIN oauth'.exchanges : y.state = st}
                                     |-> oauth'.exchanges[x]]) <= 1
             /\ (st > oauth.issued \/ oauth.created[st] = 1) =>
                    /\ HandleCallbackCheck(st) = "null"
                    /\ HandleCallback(st) => UNCHANGED vars
             /\ (HandleCallbackCheck(st) = "exchange" /\ HandleCallback(st)) =>
                    /\ oauth'.pendingAuths[st] = "-"
                    /\ userSessions' = userSessions
             /\ (st <= oauth.issued /\ oauth.pendingAuths[st] = "-") =>
                    oauth'.pendingAuths[st] = "-"
       /\ userSessions' \ userSessions # {} =>
             \E x \in BagToSet(oauth.exchanges) : ExchangeOk(x)]_vars

\* one token has logged its user in, the exchange of another one failed,
\* and both are used up
C37_Witness ==
    \E st, st2 \in StateTokens :
        /\ oauth.created[st] = 1
        /\ oauth.pendingAuths[st] = "-"
        /\ st2 <= oauth.issued /\ st2 # st
        /\ oauth.created[st2] = 0
        /\ oauth.pendingAuths[st2] = "-"
        /\ oauth.exchanges = EmptyBag
        /\ "u3" \in userSessions

====
